---- MODULE Spec2Model ----
(***************************************************************************)
(* Model of the AmbientSkillSyncMVP component                              *)
(* (src/ambient-skill-sync/src/App.tsx): the lesson queue, the profile,    *)
(* the seen counters, the ambient interval timer, the geolocation          *)
(* requests and the key-value store, with one action per event handler.    *)
(*                                                                         *)
(* Conventions.  A nullable value is a sequence of length at most one:     *)
(* null is << >> and the value v is << v >>.  Math.random() returns the    *)
(* rational k / RandDenom, k in 0 .. RandDenom - 1, and every action takes *)
(* the k of each call it makes as a parameter.  React runs the effects of  *)
(* a state update before the next event is handled, so an action is the   *)
(* handler followed by the effects whose dependencies it changed.          *)
(* Cosmetic state (notification, pulse, xpGained, a lesson's text, icon    *)
(* and colour) is left out.                                                *)
(***************************************************************************)
EXTENDS Integers, Sequences, FiniteSets, TLC

VARIABLES
    ambientOn,           \* useState<boolean>
    lessonsSeen,         \* useState<Record<string, number>>: a function on the ids present
    queue,               \* useState<LessonItem[]>, newest first
    lastTrigger,         \* useState<LastTrigger>: null or [lessonId, at]
    profile,             \* useState<Profile>
    currentLesson,       \* useState<LessonItem | null>
    envTags,             \* useState<string[]>
    lastLocation,        \* useState<Coordinates | null>
    ambientIntervalRef,  \* useRef<number | null>: the id setInterval returned
    timers,              \* the browser's armed intervals: id -> time units until it fires
    geoPending,          \* getCurrentPosition requests that have not called back yet
    storage,             \* localStorage: key -> stored value
    now,                 \* Date.now(), in model time units
    last,                \* history: the handler that ran last and what it was given
    clicks,              \* history: the manual triggers made so far
    events               \* history: the other events handled so far

vars == << ambientOn, lessonsSeen, queue, lastTrigger, profile, currentLesson,
           envTags, lastLocation, ambientIntervalRef, timers, geoPending,
           storage, now, last, clicks, events >>

\* the state of the program and of its browser
progVars == << ambientOn, lessonsSeen, queue, lastTrigger, profile, currentLesson,
               envTags, lastLocation, ambientIntervalRef, timers, geoPending,
               storage, now >>

-----------------------------------------------------------------------------
(* Bounds of the model *)

\* Math.random() is k / RandDenom
RandDenom == 10
\* the 15000 ms interval, in model time units
IntervalUnits == 1
\* a session of Spec presses at most MaxClicks trigger buttons
MaxClicks == 2
\* and handles at most MaxEvents other events (timer, callbacks, other buttons, time)
MaxEvents == 3
\* a session of SpecFill presses at most MaxFillClicks "Add to Queue" buttons
MaxFillClicks == 6
\* and handles at most MaxFillEvents other events
MaxFillEvents == 2
\* the events of a session of the clock specification
MaxClockEvents == 4
\* the events of a session of the selection specification
MaxPickEvents == 3
\* the sessions of the fair specification: the last reading of the clock they tell
\* apart, and the geolocation requests they leave unanswered
MaxLiveNow == 1
MaxLivePending == 2

-----------------------------------------------------------------------------
(* Values *)

Null == << >>
Some(v) == << v >>

Range(s) == { s[i] : i \in DOMAIN s }
includes(s, x) == x \in Range(s)

Min(a, b) == IF a < b THEN a ELSE b

INITIAL_PROFILE ==
    [ name   |-> "Alex Chen",
      skills |-> << "Productivity", "AI Literacy", "Culinary Arts", "Mindfulness", "Finance" >>,
      xp     |-> 245,
      streak |-> 14,
      level  |-> 7 ]

LESSONS ==
    << [ id |-> "p1", title |-> "Productivity Pulse",
         tags |-> << "Productivity", "Focus", "Time Management" >>, xp |-> 25 ],
       [ id |-> "c1", title |-> "Culinary Chemistry",
         tags |-> << "Cooking", "Science", "Kitchen" >>, xp |-> 30 ],
       [ id |-> "a1", title |-> "AI Insight",
         tags |-> << "AI", "Technology", "Learning" >>, xp |-> 40 ],
       [ id |-> "s1", title |-> "Mindful Minute",
         tags |-> << "Wellness", "Mindfulness", "Health" >>, xp |-> 20 ],
       [ id |-> "e1", title |-> "Financial Flash",
         tags |-> << "Finance", "Investing", "Growth" >>, xp |-> 35 ],
       [ id |-> "h1", title |-> "Health Hack",
         tags |-> << "Health", "Wellness", "Habit" >>, xp |-> 15 ] >>

DEFAULT_ENV_TAGS == << "Focus", "Learning", "Wellness" >>

MOODS == << "Focused", "Curious", "Relaxed", "Energetic", "Creative", "Analytical" >>

QUEUE_CAPACITY == 5

LessonIds == { LESSONS[i].id : i \in DOMAIN LESSONS }

\* a catalog lesson as a LessonItem without triggeredAt and context: { ...lesson }
LessonItem(lesson) ==
    [ id |-> lesson.id, title |-> lesson.title, tags |-> lesson.tags, xp |-> lesson.xp,
      triggeredAt |-> Null, context |-> Null ]

\* { ...lesson, triggeredAt: Date.now(), context }
NewItem(lesson, context, t) ==
    [ id |-> lesson.id, title |-> lesson.title, tags |-> lesson.tags, xp |-> lesson.xp,
      triggeredAt |-> Some(t), context |-> Some(context) ]

\* prev[id] || 0
SeenOf(seen, id) == IF id \in DOMAIN seen THEN seen[id] ELSE 0

\* Math.floor(Math.random() * n), with Math.random() = k / RandDenom
RandomIndex(k, n) == (k * n) \div RandDenom

\* Math.random() > tenths / 10
RandomAbove(k, tenths) == k * 10 > tenths * RandDenom

-----------------------------------------------------------------------------
(* Utilities *)

\* safeGet: the parsed stored value, or the fallback when the key is absent
safeGet(store, key, fallback) ==
    IF key \in DOMAIN store THEN store[key] ELSE fallback

\* the four safeSet calls of the persistence effect
PersistAll(store, a, p, seen, tags) ==
    [ k \in DOMAIN store \cup { "ambientOn", "profile", "lessonsSeen", "envTags" } |->
        CASE k = "ambientOn"   -> a
          [] k = "profile"     -> p
          [] k = "lessonsSeen" -> seen
          [] k = "envTags"     -> tags
          [] OTHER             -> store[k] ]

getTimeOfDay(hour) ==
    IF hour >= 5 /\ hour < 12 THEN "morning"
    ELSE IF hour < 17 THEN "afternoon"
    ELSE "evening"

getMood(k) == MOODS[RandomIndex(k, Len(MOODS)) + 1]

-----------------------------------------------------------------------------
(* The ambient engine effect *)

buildSimulatedContext(hour, kMood, kIdle, kWaiting, kLoc) ==
    LET timeOfDay == getTimeOfDay(hour)
        mood      == getMood(kMood)
        idle      == RandomAbove(kIdle, 6)
        waiting   == RandomAbove(kWaiting, 7)
        tags      == envTags
                     \o (IF idle THEN << "Idle" >> ELSE << >>)
                     \o (IF waiting THEN << "Waiting" >> ELSE << >>)
                     \o (IF timeOfDay = "morning" THEN << "Morning" >> ELSE << >>)
                     \o (IF timeOfDay = "evening" THEN << "Evening" >> ELSE << >>)
                     \o (IF lastLocation # Null /\ RandomAbove(kLoc, 8)
                         THEN << "Location-based" >> ELSE << >>)
                     \o << mood >>
    IN  [ timeOfDay |-> timeOfDay, tags |-> tags, coords |-> lastLocation, mood |-> mood ]

\* LESSONS.filter(lesson => lesson.tags.some(tag =>
\*     context.tags.includes(tag) || profile.skills.includes(tag)))
PickCandidates(context, skills) ==
    SelectSeq(LESSONS, LAMBDA lesson :
        \E i \in DOMAIN lesson.tags :
            includes(context.tags, lesson.tags[i]) \/ includes(skills, lesson.tags[i]))

RECURSIVE Factorial(_)
Factorial(n) == IF n <= 1 THEN 1 ELSE n * Factorial(n - 1)

\* every weight 1 / (seen + 1) is scaled by WeightScale, a multiple of every seen + 1
WeightScale == Factorial(MaxEvents + MaxFillEvents + 2)

WeightOf(seen, lesson) == WeightScale \div (SeenOf(seen, lesson.id) + 1)

RECURSIVE SumWeights(_, _, _)
SumWeights(seen, cands, i) ==
    IF i > Len(cands) THEN 0 ELSE WeightOf(seen, cands[i]) + SumWeights(seen, cands, i + 1)

\* the for loop testing random <= weight
RECURSIVE RouletteWalk_Inclusive(_, _, _, _)
RouletteWalk_Inclusive(seen, cands, i, random) ==
    IF i > Len(cands) THEN Null
    ELSE IF random <= WeightOf(seen, cands[i]) * RandDenom THEN Some(cands[i])
    ELSE RouletteWalk_Inclusive(seen, cands, i + 1,
                                random - WeightOf(seen, cands[i]) * RandDenom)

\* the for loop: random is kept as the numerator random * RandDenom
RECURSIVE RouletteWalk(_, _, _, _)
RouletteWalk(seen, cands, i, random) ==
    IF i > Len(cands) THEN Null
    ELSE IF random < WeightOf(seen, cands[i]) * RandDenom THEN Some(cands[i])
    ELSE RouletteWalk(seen, cands, i + 1, random - WeightOf(seen, cands[i]) * RandDenom)

pickLessonForContext(context, kPick, kFallback) ==
    LET candidates == PickCandidates(context, profile.skills)
        totalWeight == SumWeights(lessonsSeen, candidates, 1)
        walked == IF Len(candidates) > 0
                  THEN RouletteWalk(lessonsSeen, candidates, 1, kPick * totalWeight)
                  ELSE Null
    IN  IF walked # Null THEN walked[1]
        ELSE LESSONS[RandomIndex(kFallback, Len(LESSONS)) + 1]

\* enqueueLesson refreshing the entry of a lesson that is already queued
enqueueLesson_Refresh(currentQueue, lesson, context, t) ==
    IF Len(currentQueue) >= QUEUE_CAPACITY THEN currentQueue
    ELSE IF \E i \in DOMAIN currentQueue : currentQueue[i].id = lesson.id
    THEN [ i \in DOMAIN currentQueue |->
             IF currentQueue[i].id = lesson.id
             THEN NewItem(lesson, context, t) ELSE currentQueue[i] ]
    ELSE << NewItem(lesson, context, t) >> \o currentQueue

\* enqueueLesson without its capacity check
enqueueLesson_NoCapacity(currentQueue, lesson, context, t) ==
    IF \E i \in DOMAIN currentQueue : currentQueue[i].id = lesson.id THEN currentQueue
    ELSE << NewItem(lesson, context, t) >> \o currentQueue

\* the setQueue updater of enqueueLesson
enqueueLesson(currentQueue, lesson, context, t) ==
    IF Len(currentQueue) >= QUEUE_CAPACITY THEN currentQueue
    ELSE IF \E i \in DOMAIN currentQueue : currentQueue[i].id = lesson.id THEN currentQueue
    ELSE << NewItem(lesson, context, t) >> \o currentQueue

clearInterval(tms, id) == [ i \in DOMAIN tms \ { id } |-> tms[i] ]

\* the id window.setInterval returns: a positive number no armed timer has
FreshTimerId(tms) == CHOOSE id \in 1 .. Cardinality(DOMAIN tms) + 1 : id \notin DOMAIN tms

\* the cleanup the previous run of the effect returned
EffectCleanup(tms, ref) == IF ref # Null THEN clearInterval(tms, ref[1]) ELSE tms

\* one run of the ambient engine effect (after the cleanup of the previous run):
\* the browser's timers, the ref and the outstanding geolocation requests after it
AmbientEffectBody(on, tms, ref, pending) ==
    IF on
    THEN LET id == FreshTimerId(tms)
         IN  [ timers  |-> [ i \in DOMAIN tms \cup { id } |->
                               IF i = id THEN IntervalUnits ELSE tms[i] ],
               ref     |-> Some(id),
               pending |-> pending + 1 ]
    ELSE [ timers  |-> IF ref # Null THEN clearInterval(tms, ref[1]) ELSE tms,
           ref     |-> Null,
           pending |-> pending ]

\* the effect without the cleanup function of its previous run
AmbientEffect_NoCleanup(on, tms, ref, pending) ==
    AmbientEffectBody(on, tms, ref, pending)

\* the effect without any clearInterval: it arms when on and only forgets the ref when off
AmbientEffect_NoClear(on, tms, ref, pending) ==
    IF on
    THEN AmbientEffectBody(on, tms, ref, pending)
    ELSE [ timers |-> tms, ref |-> Null, pending |-> pending ]

AmbientEffect(on, tms, ref, pending) ==
    AmbientEffectBody(on, EffectCleanup(tms, ref), ref, pending)

\* the ambient effect re-runs with ambientOn = on
RerunAmbientEffect(on) ==
    LET e == AmbientEffect(on, timers, ambientIntervalRef, geoPending)
    IN  /\ timers' = e.timers
        /\ ambientIntervalRef' = e.ref
        /\ geoPending' = e.pending

-----------------------------------------------------------------------------
(* Construction: the useState initialisers, then the two effects of the mount *)

\* what a previous session may have left in localStorage
InitialStores == { << >>, [ k \in { "ambientOn" } |-> TRUE ] }

\* the mount of the component over one of `stores`
Mount(stores) ==
    \E store \in stores :
        LET a == safeGet(store, "ambientOn", FALSE)
            seen == safeGet(store, "lessonsSeen", << >>)
            tags == safeGet(store, "envTags", DEFAULT_ENV_TAGS)
            e == AmbientEffect(a, << >>, Null, 0)
        IN  /\ ambientOn = a
            /\ lessonsSeen = seen
            /\ queue = << >>
            /\ lastTrigger = Null
            /\ profile = INITIAL_PROFILE
            /\ currentLesson = Null
            /\ envTags = tags
            /\ lastLocation = Null
            /\ ambientIntervalRef = e.ref
            /\ timers = e.timers
            /\ geoPending = e.pending
            /\ storage = PersistAll(store, a, INITIAL_PROFILE, seen, tags)
            /\ now = 0
            /\ last = [ op |-> "mount", id |-> "", context |-> Null ]
            /\ clicks = 0
            /\ events = 0

Init == Mount(InitialStores)

-----------------------------------------------------------------------------
(* Handlers *)

\* the interval `id` fires: ambientTick, with the values the effect's closure holds
ambientTick(id, hour, kMood, kIdle, kWaiting, kLoc, kPick, kFallback) ==
    /\ id \in DOMAIN timers
    /\ timers[id] = 0
    /\ LET context == buildSimulatedContext(hour, kMood, kIdle, kWaiting, kLoc)
           lesson == pickLessonForContext(context, kPick, kFallback)
       IN  /\ queue' = enqueueLesson(queue, lesson, context, now)
           /\ lastTrigger' = Some([ lessonId |-> lesson.id, at |-> now ])
           /\ last' = [ op |-> "ambientTick", id |-> lesson.id, context |-> Some(context),
                        hour |-> hour ]
    /\ timers' = [ timers EXCEPT ![id] = IntervalUnits ]
    /\ UNCHANGED << ambientOn, lessonsSeen, profile, currentLesson, envTags, lastLocation,
                    ambientIntervalRef, geoPending, storage, now >>

\* LESSONS.filter(l => l.tags.includes(tag) || profile.skills.includes(tag))
RelevantLessons(tag, skills) ==
    SelectSeq(LESSONS, LAMBDA l : includes(l.tags, tag) \/ includes(skills, tag))

\* the lesson manualTrigger selects
ManualPick(tag, skills, kIndex) ==
    LET relevantLessons == RelevantLessons(tag, skills)
    IN  IF Len(relevantLessons) > 0
        THEN relevantLessons[RandomIndex(kIndex, Len(relevantLessons)) + 1]
        ELSE LESSONS[RandomIndex(kIndex, Len(LESSONS)) + 1]

\* the updater without its check for a queued lesson of the same id
ManualEnqueue_NoDedup(currentQueue, lesson, context, t) ==
    LET grown == << NewItem(lesson, context, t) >> \o currentQueue
    IN  SubSeq(grown, 1, Min(Len(grown), QUEUE_CAPACITY))

\* the setQueue updater of manualTrigger
ManualEnqueue(currentQueue, lesson, context, t) ==
    IF \E i \in DOMAIN currentQueue : currentQueue[i].id = lesson.id THEN currentQueue
    ELSE LET grown == << NewItem(lesson, context, t) >> \o currentQueue
         IN  SubSeq(grown, 1, Min(Len(grown), QUEUE_CAPACITY))

manualTrigger(tag, kMood, kIndex) ==
    LET context == [ timeOfDay |-> "manual", tags |-> << tag, "Manual" >>,
                     coords |-> lastLocation, mood |-> getMood(kMood) ]
        lesson == ManualPick(tag, profile.skills, kIndex)
    IN  /\ queue' = ManualEnqueue(queue, lesson, context, now)
        /\ lastTrigger' = Some([ lessonId |-> lesson.id, at |-> now ])
        /\ last' = [ op |-> "manualTrigger", id |-> lesson.id, context |-> Some(context) ]
        /\ UNCHANGED << ambientOn, lessonsSeen, profile, currentLesson, envTags,
                        lastLocation, ambientIntervalRef, timers, geoPending, storage, now >>

\* an update that counts the open for every lesson seen so far
BumpSeen_All(prev, id) ==
    [ k \in DOMAIN prev \cup { id } |-> SeenOf(prev, k) + 1 ]

\* { ...prev, [lesson.id]: (prev[lesson.id] || 0) + 1 }
BumpSeen(prev, id) ==
    [ k \in DOMAIN prev \cup { id } |-> IF k = id THEN SeenOf(prev, id) + 1 ELSE prev[k] ]

\* the profile update crediting the reward twice at open time
OpenedProfile_Double(p, lesson) ==
    [ p EXCEPT !.xp = p.xp + 2 * lesson.xp, !.streak = p.streak + 1 ]

\* { ...p, xp: p.xp + lesson.xp, streak: p.streak + 1 }
OpenedProfile(p, lesson) == [ p EXCEPT !.xp = p.xp + lesson.xp, !.streak = p.streak + 1 ]

\* a filter that also drops every entry newer than the opened one
WithoutLesson_Older(q, id) ==
    IF \E i \in DOMAIN q : q[i].id = id
    THEN SubSeq(q, (CHOOSE i \in DOMAIN q : q[i].id = id) + 1, Len(q))
    ELSE q

\* q.filter(x => x.id !== lesson.id)
WithoutLesson(q, id) == SelectSeq(q, LAMBDA x : x.id # id)

showLesson(lesson) ==
    /\ currentLesson' = Some(lesson)
    /\ lessonsSeen' = BumpSeen(lessonsSeen, lesson.id)
    /\ profile' = OpenedProfile(profile, lesson)
    /\ queue' = WithoutLesson(queue, lesson.id)
    /\ storage' = PersistAll(storage, ambientOn, profile', lessonsSeen', envTags)
    /\ RerunAmbientEffect(ambientOn)
    /\ last' = [ op |-> "showLesson", id |-> lesson.id, context |-> Null ]
    /\ UNCHANGED << ambientOn, lastTrigger, envTags, lastLocation, now >>

dismissLesson ==
    /\ currentLesson' = Null
    /\ last' = [ op |-> "dismissLesson", id |-> "", context |-> Null ]
    /\ UNCHANGED << ambientOn, lessonsSeen, queue, lastTrigger, profile, envTags,
                    lastLocation, ambientIntervalRef, timers, geoPending, storage, now >>

\* xp: currentLesson.xp, the reward assigned instead of added
CompletedProfile_Assign(p, lesson) == [ p EXCEPT !.xp = lesson.xp ]

\* the completion also counting as a streak day
CompletedProfile_Streak(p, lesson) ==
    [ p EXCEPT !.xp = p.xp + lesson.xp, !.streak = p.streak + 1 ]

\* { ...p, xp: p.xp + currentLesson.xp }
CompletedProfile(p, lesson) == [ p EXCEPT !.xp = p.xp + lesson.xp ]

handleMarkDone ==
    /\ IF currentLesson # Null
       THEN /\ profile' = CompletedProfile(profile, currentLesson[1])
            /\ currentLesson' = Null
            /\ storage' = PersistAll(storage, ambientOn, profile', lessonsSeen, envTags)
       ELSE UNCHANGED << profile, currentLesson, storage >>
    /\ last' = [ op |-> "handleMarkDone",
                 id |-> IF currentLesson # Null THEN currentLesson[1].id ELSE "",
                 context |-> Null ]
    /\ UNCHANGED << ambientOn, lessonsSeen, queue, lastTrigger, envTags, lastLocation,
                    ambientIntervalRef, timers, geoPending, now >>

\* a reset that forgets setEnvTags
resetDemo_KeepTags ==
    /\ profile' = INITIAL_PROFILE
    /\ lessonsSeen' = << >>
    /\ queue' = << >>
    /\ currentLesson' = Null
    /\ storage' = PersistAll(<< >>, ambientOn, profile', lessonsSeen', envTags)
    /\ RerunAmbientEffect(ambientOn)
    /\ last' = [ op |-> "resetDemo", id |-> "", context |-> Null ]
    /\ UNCHANGED << ambientOn, lastTrigger, envTags, lastLocation, now >>

resetDemo ==
    /\ profile' = INITIAL_PROFILE
    /\ lessonsSeen' = << >>
    /\ queue' = << >>
    /\ currentLesson' = Null
    /\ envTags' = DEFAULT_ENV_TAGS
    \* localStorage.clear(), then the persistence effect of the new state
    /\ storage' = PersistAll(<< >>, ambientOn, profile', lessonsSeen', envTags')
    /\ RerunAmbientEffect(ambientOn)
    /\ last' = [ op |-> "resetDemo", id |-> "", context |-> Null ]
    /\ UNCHANGED << ambientOn, lastTrigger, lastLocation, now >>

\* String.prototype.trim on the texts the model types into the tag input
trim(text) ==
    CASE text = " Cooking " -> "Cooking"
      [] text = "  "        -> ""
      [] OTHER              -> text

addEnvTag(tag) ==
    /\ IF trim(tag) # "" /\ ~includes(envTags, trim(tag))
       THEN /\ envTags' = << trim(tag) >> \o envTags
            /\ storage' = PersistAll(storage, ambientOn, profile, lessonsSeen, envTags')
            /\ RerunAmbientEffect(ambientOn)
       ELSE UNCHANGED << envTags, storage, ambientIntervalRef, timers, geoPending >>
    /\ last' = [ op |-> "addEnvTag", id |-> "", context |-> Null ]
    /\ UNCHANGED << ambientOn, lessonsSeen, queue, lastTrigger, profile, currentLesson,
                    lastLocation, now >>

removeEnvTag(tag) ==
    /\ envTags' = SelectSeq(envTags, LAMBDA t : t # tag)
    /\ storage' = PersistAll(storage, ambientOn, profile, lessonsSeen, envTags')
    /\ RerunAmbientEffect(ambientOn)
    /\ last' = [ op |-> "removeEnvTag", id |-> "", context |-> Null ]
    /\ UNCHANGED << ambientOn, lessonsSeen, queue, lastTrigger, profile, currentLesson,
                    lastLocation, now >>

toggleAmbientMode ==
    /\ ambientOn' = ~ambientOn
    /\ storage' = PersistAll(storage, ambientOn', profile, lessonsSeen, envTags)
    /\ RerunAmbientEffect(ambientOn')
    /\ last' = [ op |-> "toggleAmbientMode", id |-> "", context |-> Null ]
    /\ UNCHANGED << lessonsSeen, queue, lastTrigger, profile, currentLesson, envTags,
                    lastLocation, now >>

\* the success callback of getCurrentPosition: setLastLocation, then the effect re-runs
geoSuccess(position) ==
    /\ geoPending > 0
    /\ lastLocation' = Some(position)
    /\ LET e == AmbientEffect(ambientOn, timers, ambientIntervalRef, geoPending - 1)
       IN  /\ timers' = e.timers
           /\ ambientIntervalRef' = e.ref
           /\ geoPending' = e.pending
    /\ last' = [ op |-> "geoSuccess", id |-> "", context |-> Null ]
    /\ UNCHANGED << ambientOn, lessonsSeen, queue, lastTrigger, profile, currentLesson,
                    envTags, storage, now >>

\* the error callback of getCurrentPosition
geoError ==
    /\ geoPending > 0
    /\ geoPending' = geoPending - 1
    /\ last' = [ op |-> "geoError", id |-> "", context |-> Null ]
    /\ UNCHANGED << ambientOn, lessonsSeen, queue, lastTrigger, profile, currentLesson,
                    envTags, lastLocation, ambientIntervalRef, timers, storage, now >>

\* one time unit passes and Date.now() becomes t; a due interval fires before more
\* time passes
Elapse(t) ==
    /\ \A id \in DOMAIN timers : timers[id] > 0
    /\ now' = t
    /\ timers' = [ id \in DOMAIN timers |-> timers[id] - 1 ]
    /\ last' = [ op |-> "Advance", id |-> "", context |-> Null ]
    /\ UNCHANGED << ambientOn, lessonsSeen, queue, lastTrigger, profile, currentLesson,
                    envTags, lastLocation, ambientIntervalRef, geoPending, storage >>

Advance == Elapse(now + 1)

-----------------------------------------------------------------------------
(* The inputs the specification draws *)

\* draws of Math.random(): the least, one in the upper third, the greatest
RandomDraws == { 0, (7 * RandDenom) \div 10, RandDenom - 1 }
\* the draws of getMood and of the idle flag
MoodDraws == { 0 }
\* the draws of the waiting and location flags
FlagDraws == { RandDenom - 1 }
HourSamples == { 9, 14 }
\* the "Add to Queue" buttons of the library's cards pass lesson.tags[0]; a session
\* presses them card after card, and starts over after the last
CardTag(n) == LESSONS[((n - 1) % Len(LESSONS)) + 1].tags[1]
TypedTags == { "Cooking", " Cooking ", "  " }
GeoSamples == { [ lat |-> 1, lon |-> 2 ] }

Tick ==
    \E id \in DOMAIN timers, hour \in HourSamples, kMood \in MoodDraws,
       kIdle \in MoodDraws, kWaiting \in FlagDraws, kLoc \in FlagDraws,
       kPick \in RandomDraws, kFallback \in RandomDraws :
        ambientTick(id, hour, kMood, kIdle, kWaiting, kLoc, kPick, kFallback)

\* the Quick Trigger buttons and the "Add to Queue" buttons pass these, among others
TriggerTags == { "Productivity", "Cooking" }

Manual(tags) == \E tag \in tags, kMood \in MoodDraws, kIndex \in RandomDraws :
                    manualTrigger(tag, kMood, kIndex)

OpenQueued == \E i \in DOMAIN queue : showLesson(queue[i])

\* the library cards whose "Open" button a session presses
LibraryPicks == { "p1", "a1" }

OpenLibrary == \E i \in DOMAIN LESSONS :
                  /\ LESSONS[i].id \in LibraryPicks
                  /\ showLesson(LessonItem(LESSONS[i]))

AddTag == \E tag \in TypedTags : addEnvTag(tag)

RemoveTag == \E i \in DOMAIN envTags : removeEnvTag(envTags[i])

GeoOk == \E position \in GeoSamples : geoSuccess(position)

\* a trigger button is pressed, in a session of at most `max` presses
Click(max, tags) ==
    /\ clicks < max
    /\ Manual(tags)
    /\ clicks' = clicks + 1
    /\ UNCHANGED events

\* another event A is handled, in a session of at most `max` of them
Counted(max, A) ==
    /\ events < max
    /\ A
    /\ events' = events + 1
    /\ UNCHANGED clicks

\* sessions that press any of TriggerTags
Next ==
    \/ Click(MaxClicks, TriggerTags)
    \/ Counted(MaxEvents, Tick)
    \/ Counted(MaxEvents, OpenQueued)
    \/ Counted(MaxEvents, OpenLibrary)
    \/ Counted(MaxEvents, dismissLesson)
    \/ Counted(MaxEvents, handleMarkDone)
    \/ Counted(MaxEvents, resetDemo)
    \/ Counted(MaxEvents, AddTag)
    \/ Counted(MaxEvents, RemoveTag)
    \/ Counted(MaxEvents, toggleAmbientMode)
    \/ Counted(MaxEvents, GeoOk)
    \/ Counted(MaxEvents, geoError)
    \/ Counted(MaxEvents, Advance)

Spec == Init /\ [][Next]_vars

\* sessions that press "Add to Queue" on the library's cards, one card after the other
NextFill ==
    \/ Click(MaxFillClicks, { CardTag(clicks + 1) })
    \/ Counted(MaxFillEvents, Tick)
    \/ Counted(MaxFillEvents, OpenQueued)
    \/ Counted(MaxFillEvents, OpenLibrary)
    \/ Counted(MaxFillEvents, dismissLesson)
    \/ Counted(MaxFillEvents, handleMarkDone)
    \/ Counted(MaxFillEvents, resetDemo)
    \/ Counted(MaxFillEvents, AddTag)
    \/ Counted(MaxFillEvents, RemoveTag)
    \/ Counted(MaxFillEvents, toggleAmbientMode)
    \/ Counted(MaxFillEvents, GeoOk)
    \/ Counted(MaxFillEvents, geoError)
    \/ Counted(MaxFillEvents, Advance)

SpecFill == Init /\ [][NextFill]_vars

\* every value of new Date().getHours()
Hours == 0 .. 23

ClockTick ==
    \E id \in DOMAIN timers, hour \in Hours, kMood \in MoodDraws, kFlag \in FlagDraws,
       kPick \in RandomDraws :
        ambientTick(id, hour, kMood, kMood, kFlag, kFlag, kPick, kPick)

\* sessions that leave the page alone while the clock runs through the day
NextClock ==
    \/ Counted(MaxClockEvents, ClockTick)
    \/ Counted(MaxClockEvents, Advance)

SpecClock == Init /\ [][NextClock]_vars

\* stores a previous session left with ambient mode on and some lessons opened
PickStores ==
    { [ ambientOn |-> TRUE, lessonsSeen |-> seen ] :
        seen \in { << >>,
                   [ k \in { "p1" } |-> 9 ],
                   [ k \in { "p1", "s1", "h1" } |->
                       CASE k = "p1" -> 9 [] k = "s1" -> 1 [] OTHER -> 4 ] } }

InitPick == Mount(PickStores)

\* a tick with any draw of the selection
PickTick ==
    \E id \in DOMAIN timers, hour \in HourSamples, kMood \in MoodDraws,
       kFlag \in FlagDraws, kPick \in 0 .. RandDenom - 1 :
        ambientTick(id, hour, kMood, kMood, kFlag, kFlag, kPick, kPick)

\* sessions of ticks over the stores of PickStores; a removed tag changes the
\* candidates
NextPick ==
    \/ Counted(MaxPickEvents, PickTick)
    \/ Counted(MaxPickEvents, Advance)
    \/ Counted(MaxPickEvents, RemoveTag)

SpecPick == InitPick /\ [][NextPick]_vars

\* time passes in a session without end: readings of the clock after MaxLiveNow
\* are not told apart
LiveAdvance == Elapse(Min(now + 1, MaxLiveNow))

LiveTick ==
    \E id \in DOMAIN timers, hour \in { 9 }, kMood \in MoodDraws,
       kFlag \in FlagDraws, kPick \in { 0 } :
        ambientTick(id, hour, kMood, kMood, kFlag, kFlag, kPick, kPick)

\* an event of a session without end
Live(A) == A /\ UNCHANGED << clicks, events >>

\* a user's action, taken while few geolocation requests are unanswered
User(A) == geoPending < MaxLivePending /\ Live(A)

\* sessions without end: the timer, the clock and the geolocation callbacks are
\* scheduled fairly, the user acts or not
NextLive ==
    \/ Live(LiveTick)
    \/ Live(LiveAdvance)
    \/ Live(GeoOk)
    \/ Live(geoError)
    \/ User(AddTag)
    \/ User(RemoveTag)
    \/ User(toggleAmbientMode)

SpecLive ==
    /\ Init
    /\ [][NextLive]_vars
    /\ WF_vars(Live(LiveTick))
    /\ WF_vars(Live(LiveAdvance))
    /\ WF_vars(Live(GeoOk) \/ Live(geoError))

-----------------------------------------------------------------------------
(* Properties *)

QueueIds(q) == { q[i].id : i \in DOMAIN q }

\* the catalog's reward of the lesson `id`
XpOf(id) == (CHOOSE l \in Range(LESSONS) : l.id = id).xp

\* q without its i-th entry
RemoveAt(q, i) == SubSeq(q, 1, i - 1) \o SubSeq(q, i + 1, Len(q))

\* the step is an enqueue attempt: an ambient tick or a manual trigger
IsAttempt(l) == l.op \in { "ambientTick", "manualTrigger" }

\* C1: in every reachable state the queue holds at most 5 items.
C1_QueueAtMostFive == Len(queue) <= 5

\* a tick has just selected a lesson that is not queued while the queue held 5 items
C1_Witness ==
    /\ Len(queue) = 5
    /\ last.op = "ambientTick"
    /\ last.id \notin QueueIds(queue)

\* C2: an insertion attempt (ambient tick or manual trigger) made while the queue
\* holds 5 items leaves the queue exactly as it was.
C2_FullQueueRejects ==
    [][ (Len(queue) = 5 /\ IsAttempt(last')) => queue' = queue ]_vars

\* C3: in every reachable state no two queue items have the same lesson id.
C3_NoDuplicateIds ==
    \A i, j \in DOMAIN queue : queue[i].id = queue[j].id => i = j

\* a manual trigger has just selected a lesson that an earlier, different trigger queued
C3_Witness ==
    /\ last.op = "manualTrigger"
    /\ \E i \in DOMAIN queue :
          /\ queue[i].id = last.id
          /\ queue[i].context # last.context

\* the candidate set of a selection attempt: the catalog lessons having at least one
\* tag that occurs in the context's tags or in the profile's skills
CandidateIds(tags, skills) ==
    { l.id : l \in { x \in Range(LESSONS) :
                       Range(x.tags) \cap (Range(tags) \cup Range(skills)) # { } } }

\* C4: every selection attempt (ambient tick or manual trigger) yields a lesson of
\* the catalog, and one of the candidate set whenever that set is not empty.
C4_SelectionInCandidates ==
    IsAttempt(last) =>
        LET cands == CandidateIds(last.context[1].tags, profile.skills)
        IN  /\ last.id \in LessonIds
            /\ cands # { } => last.id \in cands

\* C5: while ambient mode is off no ambient tick happens, so no timer-driven enqueue
\* changes the queue between a toggle off and the next toggle on.
C5_NoTickWhileOff ==
    [][ ~ambientOn => last'.op # "ambientTick" ]_vars

\* ambient mode was toggled off after a location update had re-armed the timer, and
\* a whole interval has passed since
C5_Witness ==
    /\ ~ambientOn
    /\ lastLocation # Null
    /\ last.op = "Advance"
    /\ now >= IntervalUnits

\* C6: opening a lesson L displays L, adds L's reward to the XP once, adds 1 to the
\* streak and adds 1 to L's seen counter (0 when absent).
C6_OpenCredits ==
    [][ last'.op = "showLesson" =>
          /\ currentLesson' # Null
          /\ currentLesson'[1].id = last'.id
          /\ last'.id \in LessonIds
          /\ profile'.xp = profile.xp + XpOf(last'.id)
          /\ profile'.streak = profile.streak + 1
          /\ SeenOf(lessonsSeen', last'.id) = SeenOf(lessonsSeen, last'.id) + 1 ]_vars

\* the lesson of reward 25 was opened from XP 245 and streak 14
C6_Witness ==
    /\ last.op = "showLesson"
    /\ last.id = "p1"
    /\ currentLesson # Null
    /\ profile.xp = 270
    /\ profile.streak = 15

\* C7: opening a queued lesson removes exactly the entry of that lesson; every other
\* entry stays, unchanged and in the same order.
C7_OpenRemovesOneEntry ==
    [][ (last'.op = "showLesson" /\ last'.id \in QueueIds(queue)) =>
          \E i \in DOMAIN queue :
              /\ queue[i].id = last'.id
              /\ queue' = RemoveAt(queue, i) ]_vars

\* the second of three queued lessons was opened from the queue (it carries its
\* trigger time); the newer and the older entry are still queued, in that order
C7_Witness ==
    /\ last.op = "showLesson"
    /\ currentLesson # Null
    /\ currentLesson[1].triggeredAt # Null
    /\ currentLesson[1].context[1].tags[1] = CardTag(2)
    /\ Len(queue) = 2
    /\ queue[1].context[1].tags[1] = CardTag(3)
    /\ queue[2].context[1].tags[1] = CardTag(1)

\* C8: an enqueue attempt (ambient tick or manual trigger) for a lesson that is
\* already queued leaves the queue unchanged.
C8_DuplicateIsNoOp ==
    [][ (IsAttempt(last') /\ last'.id \in QueueIds(queue)) => queue' = queue ]_vars

\* a tick has just selected a lesson that was queued at an earlier time, with
\* another context
C8_Witness ==
    /\ last.op = "ambientTick"
    /\ Len(queue) < 5
    /\ \E i \in DOMAIN queue :
          /\ queue[i].id = last.id
          /\ queue[i].triggeredAt[1] < lastTrigger[1].at
          /\ queue[i].context # last.context

\* C9: "mark complete" with a lesson displayed adds that lesson's reward to the XP,
\* clears the displayed lesson and leaves streak, seen counters and queue unchanged;
\* with no lesson displayed it changes nothing; a session that opens a lesson and then
\* completes it ends with the XP raised by twice the reward and the streak by 1.
C9_MarkDone ==
    [][ last'.op = "handleMarkDone" =>
          /\ IF currentLesson # Null
             THEN /\ profile'.xp = profile.xp + XpOf(currentLesson[1].id)
                  /\ currentLesson' = Null
                  /\ profile'.streak = profile.streak
                  /\ lessonsSeen' = lessonsSeen
                  /\ queue' = queue
             ELSE progVars' = progVars
          /\ (last.op = "showLesson" /\ events = 1 /\ lessonsSeen = [ k \in { last.id } |-> 1 ]) =>
                /\ profile'.xp = INITIAL_PROFILE.xp + 2 * XpOf(last.id)
                /\ profile'.streak = INITIAL_PROFILE.streak + 1 ]_vars

\* the lesson of reward 25 was opened and then completed, from XP 245 and streak 14
C9_Witness ==
    /\ last.op = "handleMarkDone"
    /\ last.id = "p1"
    /\ currentLesson = Null
    /\ profile.xp = 295
    /\ profile.streak = 15

\* C10: a step that is not a reset never decreases the XP or the streak, and ticks,
\* manual triggers, dismissals, tag edits and ambient toggles leave both unchanged.
C10_XpStreakMonotone ==
    [][ /\ last'.op # "resetDemo" =>
              /\ profile'.xp >= profile.xp
              /\ profile'.streak >= profile.streak
        /\ last'.op \in { "ambientTick", "manualTrigger", "dismissLesson", "addEnvTag",
                          "removeEnvTag", "toggleAmbientMode" } =>
              /\ profile'.xp = profile.xp
              /\ profile'.streak = profile.streak ]_vars

\* a lesson was completed after the XP had already grown
C10_Witness ==
    /\ last.op = "handleMarkDone"
    /\ last.id # ""
    /\ profile.xp > INITIAL_PROFILE.xp + XpOf(last.id)

\* C11: a reset leaves the profile equal to its initial literal, the queue empty,
\* the seen counters empty, no lesson displayed and the environment tags at their
\* three defaults.
C11_ResetRestores ==
    [][ last'.op = "resetDemo" =>
          /\ profile' = [ name |-> "Alex Chen",
                          skills |-> << "Productivity", "AI Literacy", "Culinary Arts",
                                        "Mindfulness", "Finance" >>,
                          xp |-> 245, streak |-> 14, level |-> 7 ]
          /\ queue' = << >>
          /\ lessonsSeen' = << >>
          /\ currentLesson' = Null
          /\ envTags' = << "Focus", "Learning", "Wellness" >> ]_vars

\* a reset has just happened in a session that had triggered a lesson before
C11_Witness ==
    /\ last.op = "resetDemo"
    /\ lastTrigger # Null
    /\ profile = INITIAL_PROFILE
    /\ queue = << >>
    /\ envTags = DEFAULT_ENV_TAGS

\* the keys the persistence effect writes
PersistedKeys == { "ambientOn", "profile", "lessonsSeen", "envTags" }

\* C12: after a reset, persistence effect included, the store holds none of the
\* persisted keys and the ambient-mode flag is back at its default, off.
C12_ResetClearsStore ==
    [][ last'.op = "resetDemo" =>
          /\ DOMAIN storage' \cap PersistedKeys = { }
          /\ ambientOn' = FALSE ]_vars

\* the category the boundaries [5,12) -> morning, [12,17) -> afternoon assign
CategoryOf(h) ==
    IF 5 <= h /\ h < 12 THEN "morning"
    ELSE IF 12 <= h /\ h < 17 THEN "afternoon"
    ELSE "evening"

\* C13: the time of day of an automatic context is morning for hours 5..11,
\* afternoon for hours 12..16 and evening for every other hour of 0..23.
C13_TimeOfDay ==
    last.op = "ambientTick" => last.context[1].timeOfDay = CategoryOf(last.hour)

\* the seen counter of the lesson `id` differs between the two states of a step
SeenChanged(id) == SeenOf(lessonsSeen', id) # SeenOf(lessonsSeen, id)

\* C14, as stated: a lesson's seen counter changes only in a step that opens that
\* lesson.
C14_SeenOnlyOnOpen ==
    [][ \A id \in LessonIds :
          SeenChanged(id) => (last'.op = "showLesson" /\ last'.id = id) ]_vars

\* C14, amended: a lesson's seen counter changes only in a step that opens that
\* lesson, which adds 1 to it, or in a reset, which clears it; ticks, manual
\* triggers, dismissals and completions change no seen counter.
C14_SeenOnlyOnOpenOrReset ==
    [][ /\ \A id \in LessonIds :
              SeenChanged(id) =>
                  \/ /\ last'.op = "showLesson"
                     /\ last'.id = id
                     /\ SeenOf(lessonsSeen', id) = SeenOf(lessonsSeen, id) + 1
                  \/ /\ last'.op = "resetDemo"
                     /\ SeenOf(lessonsSeen', id) = 0
        /\ last'.op \in { "ambientTick", "manualTrigger", "dismissLesson",
                          "handleMarkDone" } => lessonsSeen' = lessonsSeen ]_vars

\* a tick has selected and queued a lesson that had been opened once; its counter
\* is still 1
C14_Witness ==
    /\ last.op = "ambientTick"
    /\ last.id \in QueueIds(queue)
    /\ SeenOf(lessonsSeen, last.id) = 1

\* C15: an enqueue attempt (tick or manual trigger) that leaves the queue as it was,
\* the lesson being queued already or the queue being full, leaves the last-trigger
\* marker as it was.
C15_MarkerOnlyOnInsertion ==
    [][ (IsAttempt(last') /\ queue' = queue) => lastTrigger' = lastTrigger ]_vars

\* at most one interval is armed, and one is armed exactly when ambient mode is on
OneTimerIffOn ==
    /\ Cardinality(DOMAIN timers) <= 1
    /\ (DOMAIN timers # { }) <=> ambientOn

\* C16: in every reachable state at most one periodic timer is armed, and one is
\* armed exactly when ambient mode is on; no tick directly follows a tick, an
\* interval passes between them.
C16_SingleTimer ==
    /\ OneTimerIffOn
    /\ [][ /\ OneTimerIffOn'
           /\ last.op = "ambientTick" => last'.op # "ambientTick" ]_vars

\* ambient mode is on with one timer armed after a location update and the opening
\* of a lesson have each re-run the effect
C16_Witness ==
    /\ ambientOn
    /\ Cardinality(DOMAIN timers) = 1
    /\ lastLocation # Null
    /\ last.op = "showLesson"

\* C17: the outcome of a geolocation request, success or failure, settles that
\* request and issues no further one; a failure changes nothing else, the
\* coordinates included.
C17_NoGeoRetry ==
    [][ /\ last'.op \in { "geoSuccess", "geoError" } => geoPending' = geoPending - 1
        /\ last'.op = "geoError" =>
              /\ lastLocation' = lastLocation
              /\ UNCHANGED << ambientOn, lessonsSeen, queue, lastTrigger, profile,
                              currentLesson, envTags, ambientIntervalRef, timers,
                              storage >> ]_vars

\* C18: if ambient mode stays on from some point on, ambient ticks keep firing,
\* however user actions and geolocation callbacks interleave with the timer.
C18_TickEventually ==
    <>[]ambientOn => []<><< last'.op = "ambientTick" >>_vars

\* the sum of the weights of the first n candidates
RECURSIVE CumWeight(_, _, _)
CumWeight(seen, cands, n) ==
    IF n = 0 THEN 0 ELSE CumWeight(seen, cands, n - 1) + WeightOf(seen, cands[n])

\* the candidate whose cumulative-weight interval contains the draw of numerator r
IntervalOf(seen, cands, r) ==
    CHOOSE i \in DOMAIN cands :
        /\ CumWeight(seen, cands, i - 1) * RandDenom <= r
        /\ r < CumWeight(seen, cands, i) * RandDenom

\* a tenth of the weight of a lesson never opened: the weights of lessons opened
\* 0, 1, 4 or 9 times are 10, 5, 2 and 1 of these
ShareUnit == WeightScale \div 10

\* the candidates of the context of the last tick
TickCandidates == PickCandidates(last.context[1], profile.skills)

\* the draws, one per ShareUnit of the total weight, that select the i-th candidate
ShareOf(seen, cands, i) ==
    { j \in 0 .. (CumWeight(seen, cands, Len(cands)) \div ShareUnit) - 1 :
        RouletteWalk(seen, cands, 1, j * ShareUnit * RandDenom) = Some(cands[i]) }

\* C19: with candidates, the roulette walk maps each draw of [0, total) to the
\* candidate whose cumulative-weight interval contains it and never falls through;
\* of draws spread evenly over [0, total) each candidate gets a share in proportion
\* to its weight 1/(seen + 1): 10 for a lesson never opened against 1 for a lesson
\* opened 9 times, and at least one whatever its count.
C19_RouletteWalk ==
    (last.op = "ambientTick" /\ Len(TickCandidates) > 0) =>
        LET cands == TickCandidates
            total == CumWeight(lessonsSeen, cands, Len(cands))
        IN  /\ last.id \in { cands[i].id : i \in DOMAIN cands }
            /\ \A k \in 0 .. RandDenom - 1 :
                  RouletteWalk(lessonsSeen, cands, 1, k * total)
                      = Some(cands[IntervalOf(lessonsSeen, cands, k * total)])
            /\ \A i \in DOMAIN cands :
                  Cardinality(ShareOf(lessonsSeen, cands, i))
                      * (SeenOf(lessonsSeen, cands[i].id) + 1) = 10

\* a tick has selected a lesson opened 9 times although a lesson never opened was
\* a candidate too
C19_Witness ==
    /\ last.op = "ambientTick"
    /\ SeenOf(lessonsSeen, last.id) = 9
    /\ \E i \in DOMAIN TickCandidates : SeenOf(lessonsSeen, TickCandidates[i].id) = 0

====
